---- MODULE Spec2Model ----
(***************************************************************************)
(* The deployment scripts of guruavatar-cms: src/deploy.js (variant        *)
(* "deploy") and the deploy script in src/unnamed/part_001 (variant        *)
(* "script"), run against one remote host reached through node-ssh.        *)
(*                                                                         *)
(* A run is a sequential program: pc is the statement deploy() is at,      *)
(* attempt is the loop index of the retryOperation call in progress.  One  *)
(* action is one invocation of the operation a step wraps.  The remote     *)
(* host is the target directory (tdir), its sibling backup directories     *)
(* (snaps) and the pm2 process list (pm2).  ssh.execCommand resolves       *)
(* whatever the exit status of the command is and rejects only when the    *)
(* channel cannot be opened, in which case the command did not run.        *)
(***************************************************************************)
EXTENDS Integers, Sequences, FiniteSets, TLC

VARIABLES
    variant,     \* which script runs: "deploy" or "script"
    env,         \* the environment variables that are set
    localPkg,    \* package.json exists in the working directory
    localTree,   \* the local project tree: path -> version
    tdir0,       \* the remote target directory before the run
    pc,          \* position in deploy()
    attempt,     \* retryOperation's loop index i for the call in progress
    session,     \* "none", "connected", "lost" or "disposed"
    backupDir,   \* deploy()'s backupDir
    tdir,        \* remote target directory: [exists, files]
    snaps,       \* remote backup directories: name -> files
    pm2,         \* whether pm2 knows strapi-app
    zipLocal,    \* the local archive exists
    exitCode,    \* process exit code once pc = "exited"
    log,         \* remote commands that ran on the host, in order
    msgs,        \* console messages written so far
    connects,    \* ssh.connect invocations
    puts,        \* ssh.putFile invocations
    retries,     \* "Operation failed, retrying" messages
    dfOut,       \* what the df query printed
    snapAt,      \* files of the target directory when the backup command ran
    faults,      \* channel failures so far on the open connection
    failedAt,    \* the step whose error reached the catch block of deploy()
    nonzero,     \* the steps whose remote command exited with non-zero status
    reissued,    \* the backup command was invoked again after a rejection
    rMax,        \* retryOperation in isolation: maxRetries
    rFirstOk,    \* ... the first invocation of the operation that succeeds
    rI,          \* ... loop index i
    rCalls,      \* ... invocations of the operation so far
    rSleeps,     \* ... delays slept so far
    rState,      \* ... "init", "running", "sleeping", "returned", "threw"
    rValue       \* ... invocation whose result or error was propagated

cfgVars == <<variant, env, localPkg, localTree, tdir0>>
remoteVars == <<tdir, snaps, pm2>>
retryVars == <<rMax, rFirstOk, rI, rCalls, rSleeps, rState, rValue>>
runVars == <<pc, attempt, session, backupDir, tdir, snaps, pm2, zipLocal,
             exitCode, log, msgs, connects, puts, retries, dfOut, snapAt, faults,
             failedAt, nonzero, reissued>>
vars == <<cfgVars, runVars, retryVars>>

----------------------------------------------------------------------------
(* Bounds of the model *)

\* largest maxRetries given to retryOperation when it is run in isolation
MaxN == 5

\* channel failures the network injects into one run while connected
MaxFaults == 4

----------------------------------------------------------------------------
(* Program constants *)

requiredEnvVars == {"DEPLOY_HOST", "DEPLOY_USER", "DEPLOY_PASSWORD", "REMOTE_DIR"}

\* retryOperation's default maxRetries
DefaultMaxRetries == 3

\* checkDiskSpace's threshold, in tenths ("availableSpace < 1")
MinFreeTenths == 10

NoBackupNeeded == "no_backup_needed"

\* the directory the backup command of this run creates, and one left by an
\* earlier run (REMOTE_DIR_backup_<timestamp>)
RunBackup == "backup_run"
PrevBackup == "backup_prev"

Paths ==
    {"package.json", "src", "public/uploads", "config/env", "build", "update.zip"}

\* the ignore globs of the archive, as the paths of the model they exclude
zipIgnore(v) ==
    IF v = "deploy" THEN {"build", "update.zip", "public/uploads", "config/env"}
    ELSE {"build", "update.zip"}

\* the -x patterns of the unzip command
unzipExclude(v) == IF v = "deploy" THEN {"public/uploads", "config/env"} ELSE {}

----------------------------------------------------------------------------
(* Directories *)

NoFiles == [p \in {} |-> "old"]

Restrict(f, S) == [p \in (DOMAIN f) \cap S |-> f[p]]

\* g written over f
Overlay(f, g) ==
    [p \in (DOMAIN f) \cup (DOMAIN g) |-> IF p \in DOMAIN g THEN g[p] ELSE f[p]]

Absent == [exists |-> FALSE, files |-> NoFiles]
Dir(f) == [exists |-> TRUE, files |-> f]

\* archiver.glob('**/*', {ignore}) over the local tree
zipSourceFiles(v, tree) == Restrict(tree, (DOMAIN tree) \ zipIgnore(v))

----------------------------------------------------------------------------
(* Inputs *)

LocalTrees ==
    { [p \in S |-> "new"] : S \in {{"package.json", "src"},
                                   {"package.json", "src", "public/uploads",
                                    "config/env"}} }

\* a deployed Strapi application, and a directory that is not one
InstalledApp ==
    [p \in {"package.json", "src", "public/uploads", "config/env", "build"} |->
        "old"]
ForeignFiles == [p \in {"package.json", "src"} |->
                    IF p = "package.json" THEN "plain" ELSE "old"]

TargetDirs == {Absent, Dir(NoFiles), Dir(InstalledApp), Dir(ForeignFiles)}

OlderApp == [p \in {"package.json", "src"} |-> "older"]
NoSnaps == [n \in {} |-> NoFiles]
SnapSets == {NoSnaps, [n \in {PrevBackup} |-> OlderApp]}

\* what the df pipeline can print: a number in tenths and its unit suffix
DfOutputs == { [n10 |-> 5, unit |-> "G"], [n10 |-> 5120, unit |-> "M"],
               [n10 |-> 20, unit |-> "G"] }
NoDf == [n10 |-> 0, unit |-> "none"]

\* the readings the disk-space check is run on by itself: 0.5, 1, 2, 512 and
\* 900 with each of the unit suffixes of df -h
DfReadings ==
    { [n10 |-> n, unit |-> u] : n \in {5, 10, 20, 5120, 9000},
                                 u \in {"K", "M", "G", "T"} }

----------------------------------------------------------------------------
(* retryOperation *)

\* the error is thrown one iteration before the last
retryOperation_GivesUpEarly(i, maxRetries, rejected) ==
    IF ~rejected THEN "return"
    ELSE IF i >= maxRetries - 2 THEN "throw"
    ELSE "retry"

\* no second try: the first error is thrown
retryOperation_NoRetry(i, maxRetries, rejected) ==
    IF ~rejected THEN "return" ELSE "throw"

\* the last iteration tested one too late
retryOperation_OffByOne(i, maxRetries, rejected) ==
    IF ~rejected THEN "return"
    ELSE IF i = maxRetries THEN "throw"
    ELSE "retry"

\* what the loop does after the invocation at index i: the value is returned,
\* the error is thrown (last iteration) or the loop sleeps and goes on
retryOperation(i, maxRetries, rejected) ==
    IF ~rejected THEN "return"
    ELSE IF i = maxRetries - 1 THEN "throw"
    ELSE "retry"

----------------------------------------------------------------------------
(* The order of the steps of deploy() *)

\* backupRemoteDir called a second time, after the update
deploySteps_BackupAgain ==
    <<"validate", "zip", "connect", "diskSpace", "ensureDir", "checkInstalled",
      "nodeVersion", "backup", "putFile", "unzip", "backup", "uploadsDir", "build",
      "chown", "chmod", "restart", "pm2info", "pm2startup">>

\* the update moved in front of the backup
deploySteps_UpdateFirst ==
    <<"validate", "zip", "connect", "diskSpace", "ensureDir", "checkInstalled",
      "nodeVersion", "putFile", "unzip", "backup", "uploadsDir", "build",
      "chown", "chmod", "restart", "pm2info", "pm2startup">>

deploySteps ==
    <<"validate", "zip", "connect", "diskSpace", "ensureDir", "checkInstalled",
      "nodeVersion", "backup", "putFile", "unzip", "uploadsDir", "build",
      "chown", "chmod", "restart", "pm2info", "pm2startup">>

scriptSteps ==
    <<"validate", "localCi", "localBuild", "zip", "connect", "diskSpace",
      "backup", "nodeVersion", "strapiVersion", "strapiInstall", "npmLatest",
      "putFile", "unzip", "chown", "chmod", "pm2start">>

RollbackPcs == {"rollback", "rb_restart", "rb_pm2info"}

Steps(v) == IF v = "deploy" THEN deploySteps ELSE scriptSteps

IndexOf(seq, x) == CHOOSE k \in 1..Len(seq) : seq[k] = x

\* the statement reached when the step at p completes normally
StepAfter(v, p) ==
    IF p = "rollback" THEN (IF v = "deploy" THEN "rb_restart" ELSE "finally")
    ELSE IF p = "rb_restart" THEN "rb_pm2info"
    ELSE IF p = "rb_pm2info" THEN "finally"
    ELSE LET k == IndexOf(Steps(v), p)
         IN  IF k = Len(Steps(v)) THEN "finally" ELSE Steps(v)[k + 1]

----------------------------------------------------------------------------
(* Initial states *)

RetryIdle ==
    /\ rMax = 0 /\ rFirstOk = 0 /\ rI = 0 /\ rCalls = 0 /\ rSleeps = 0
    /\ rState = "init" /\ rValue = 0

RunStart ==
    /\ pc = "validate" /\ attempt = 0 /\ session = "none" /\ backupDir = ""
    /\ tdir = tdir0 /\ zipLocal = FALSE /\ exitCode = -1
    /\ log = <<>> /\ msgs = {} /\ connects = 0 /\ puts = 0 /\ retries = 0
    /\ dfOut = NoDf /\ snapAt = NoFiles /\ faults = 0 /\ failedAt = "none"
    /\ nonzero = {} /\ reissued = FALSE

Init ==
    /\ variant \in {"deploy", "script"}
    /\ env \in SUBSET requiredEnvVars
    /\ localPkg \in BOOLEAN
    /\ localTree \in LocalTrees
    /\ tdir0 \in TargetDirs
    /\ snaps \in SnapSets
    /\ pm2 \in BOOLEAN
    /\ RunStart
    /\ RetryIdle

----------------------------------------------------------------------------
(* How a step ends *)

\* the step returned: go on with the next statement; the last statement of
\* the try block is the success message
ProceedWith(said) ==
    LET n == StepAfter(variant, pc)
    IN  /\ pc' = n
        /\ attempt' = 0
        /\ failedAt' = failedAt
        /\ msgs' = IF n = "finally" /\ pc \notin RollbackPcs
                   THEN msgs \cup said \cup {"success"} ELSE msgs \cup said

Proceed == ProceedWith({})

\* an error leaves the step: the catch block of deploy(), or inside the
\* rollback its own catch
Raise ==
    /\ attempt' = 0
    /\ IF pc \in RollbackPcs
       THEN /\ pc' = "finally" /\ msgs' = msgs \cup {"rollback_failed"}
            /\ failedAt' = failedAt
       ELSE /\ pc' = "catch" /\ msgs' = msgs \cup {"deployment_failed"}
            /\ failedAt' = pc

\* the operation wrapped by retryOperation rejected at loop index attempt
Rejected ==
    IF retryOperation(attempt, DefaultMaxRetries, TRUE) = "retry"
    THEN /\ pc' = pc /\ attempt' = attempt + 1 /\ msgs' = msgs
         /\ retries' = retries + 1 /\ failedAt' = failedAt
         /\ reissued' = (reissued \/ pc = "backup")
    ELSE Raise /\ retries' = retries /\ reissued' = reissued

\* ssh.execCommand / ssh.putFile rejects: there is no connection, or the
\* channel cannot be opened, with or without the connection being lost
ChannelFails ==
    \/ session # "connected" /\ session' = session /\ faults' = faults
    \/ /\ session = "connected" /\ faults < MaxFaults
       /\ session' \in {"connected", "lost"}
       /\ faults' = faults + 1

\* sshExecute(command): retryOperation around ssh.execCommand.  Ran is what
\* the command does on the host and what the caller does with its output.
sshExecute(Ran) ==
    /\ \/ /\ session = "connected"
          /\ Ran
          /\ UNCHANGED <<session, retries, faults, reissued>>
       \/ /\ ChannelFails
          /\ Rejected
          /\ UNCHANGED <<remoteVars, log, backupDir, dfOut, snapAt, nonzero>>
    /\ UNCHANGED <<cfgVars, zipLocal, exitCode, connects, puts, retryVars>>

----------------------------------------------------------------------------
(* Local steps *)

\* the loop over requiredEnvVars left out
configMissing_PkgOnly(e, pkg) == ~pkg

\* validateEnvironment throws: a required variable is unset or empty, or
\* there is no package.json in the working directory
configMissing(e, pkg) == (\E v \in requiredEnvVars : v \notin e) \/ ~pkg

validateEnvironment ==
    /\ pc = "validate"
    /\ IF configMissing(env, localPkg) THEN Raise ELSE Proceed
    /\ UNCHANGED <<cfgVars, session, backupDir, remoteVars, zipLocal, exitCode,
                   log, connects, puts, retries, dfOut, snapAt, faults, nonzero,
                   reissued, retryVars>>

\* executeCommand('npm ci --only=prod') and executeCommand('... npm run build')
executeCommand ==
    /\ pc \in {"localCi", "localBuild"}
    /\ \E ok \in BOOLEAN : IF ok THEN Proceed ELSE Raise
    /\ UNCHANGED <<cfgVars, session, backupDir, remoteVars, zipLocal, exitCode,
                   log, connects, puts, retries, dfOut, snapAt, faults, nonzero,
                   reissued, retryVars>>

\* zipSourceFiles / zipProject: the write stream creates the file, the
\* archiver may fail
zipStep ==
    /\ pc = "zip"
    /\ zipLocal' = TRUE
    /\ \E ok \in BOOLEAN : IF ok THEN Proceed ELSE Raise
    /\ UNCHANGED <<cfgVars, session, backupDir, remoteVars, exitCode,
                   log, connects, puts, retries, dfOut, snapAt, faults, nonzero,
                   reissued, retryVars>>

sshConnect ==
    /\ pc = "connect"
    /\ connects' = connects + 1
    /\ \E ok \in BOOLEAN :
          IF ok THEN /\ session' = "connected" /\ Proceed
                     /\ retries' = retries /\ reissued' = reissued
          ELSE session' = session /\ Rejected
    /\ UNCHANGED <<cfgVars, backupDir, remoteVars, zipLocal, exitCode,
                   log, puts, dfOut, snapAt, faults, nonzero, retryVars>>

----------------------------------------------------------------------------
(* Preflight *)

\* parseFloat of the df output: the leading number, whatever the unit
parseFloat(out) == out.n10

checkDiskSpaceOn(outs) ==
    /\ pc = "diskSpace"
    /\ sshExecute(
          \E out \in outs :
             /\ dfOut' = out
             /\ log' = Append(log, "df")
             /\ IF parseFloat(out) < MinFreeTenths THEN Raise ELSE Proceed
             /\ UNCHANGED <<remoteVars, backupDir, snapAt, nonzero>>)

checkDiskSpace == checkDiskSpaceOn(DfOutputs)

\* mkdir -p
ensureRemoteDir ==
    /\ pc = "ensureDir"
    /\ sshExecute(
          /\ tdir' = IF tdir.exists THEN tdir ELSE Dir(NoFiles)
          /\ log' = Append(log, "mkdir")
          /\ Proceed
          /\ UNCHANGED <<snaps, pm2, backupDir, dfOut, snapAt, nonzero>>)

\* [ -f package.json ] && grep -q '"strapi"' package.json
strapiInstalled(d) ==
    /\ d.exists
    /\ "package.json" \in DOMAIN d.files
    /\ d.files["package.json"] # "plain"

checkStrapiInstallation ==
    /\ pc = "checkInstalled"
    /\ sshExecute(
          /\ log' = Append(log, "check_installed")
          /\ IF strapiInstalled(tdir) THEN Proceed
             ELSE /\ pc' = "processExit" /\ attempt' = 0 /\ failedAt' = failedAt
                  /\ msgs' = msgs \cup {"not_installed"}
          /\ UNCHANGED <<remoteVars, backupDir, dfOut, snapAt, nonzero>>)


\* process.exit(1) inside the try block: the process ends there, the finally
\* block does not run
processExit ==
    /\ pc = "processExit"
    /\ pc' = "exited"
    /\ exitCode' = 1
    /\ UNCHANGED <<cfgVars, attempt, session, backupDir, remoteVars, zipLocal,
                   log, msgs, connects, puts, retries, dfOut, snapAt, faults, failedAt,
                   nonzero, reissued, retryVars>>

\* deploy.js: nvm use, node --version and the comparison of the version;
\* the script: nvm install && nvm use && nvm alias, output unused
ensureNodeVersion ==
    /\ pc = "nodeVersion"
    /\ sshExecute(
          /\ log' = Append(log, IF variant = "deploy" THEN "nvm_use" ELSE "nvm_install")
          /\ \E seen \in {"expected", "other", "none"} :
                IF variant = "deploy" /\ seen # "expected" THEN Raise ELSE Proceed
          /\ UNCHANGED <<remoteVars, backupDir, dfOut, snapAt, nonzero>>)

\* the script: strapi version, and npm install -g @strapi/strapi when it
\* prints nothing
ensureStrapiInstalled ==
    /\ \/ /\ pc = "strapiVersion"
          /\ sshExecute(
                /\ log' = Append(log, "strapi_version")
                /\ \E found \in BOOLEAN :
                      /\ pc' = IF found THEN "npmLatest" ELSE "strapiInstall"
                      /\ attempt' = 0 /\ msgs' = msgs /\ failedAt' = failedAt
                /\ UNCHANGED <<remoteVars, backupDir, dfOut, snapAt, nonzero>>)
       \/ /\ pc = "strapiInstall"
          /\ sshExecute(
                /\ log' = Append(log, "npm_install_g")
                /\ Proceed
                /\ UNCHANGED <<remoteVars, backupDir, dfOut, snapAt, nonzero>>)

\* the script: npm install -g npm@latest
npmLatest ==
    /\ pc = "npmLatest"
    /\ sshExecute(
          /\ log' = Append(log, "npm_install_g")
          /\ Proceed
          /\ UNCHANGED <<remoteVars, backupDir, dfOut, snapAt, nonzero>>)

----------------------------------------------------------------------------
(* Backup *)

\* the entries of the target directory cp -R may fail to copy
CpMayMiss == {"build"}

\* what cp -R leaves at the destination: everything, or, when it exits
\* non-zero, everything but the entry it failed on
Copies(f) ==
    {f} \cup { Restrict(f, (DOMAIN f) \ {p}) : p \in (DOMAIN f) \cap CpMayMiss }

\* deploy.js: the backup command.  [ "$(ls -A dir)" ] is false too when ls
\* fails; the path is echoed whatever cp's exit status is
backupRemoteDir ==
    /\ pc = "backup" /\ variant = "deploy"
    /\ sshExecute(
          /\ snapAt' = tdir.files
          /\ \E lsOk \in BOOLEAN :
                IF tdir.exists /\ tdir.files # NoFiles /\ lsOk
                THEN \E c \in Copies(tdir.files) :
                        /\ snaps' = [n \in (DOMAIN snaps) \cup {RunBackup} |->
                                        IF n = RunBackup THEN c ELSE snaps[n]]
                        /\ backupDir' = RunBackup
                        /\ log' = log \o <<"backup", "cp">>
                ELSE /\ snaps' = snaps
                     /\ backupDir' = NoBackupNeeded
                     /\ log' = Append(log, "backup")
          /\ Proceed
          /\ UNCHANGED <<tdir, pm2, dfOut, nonzero>>)

\* the script: cp -R REMOTE_DIR REMOTE_DIR_backup_<timestamp>
backupCommand ==
    /\ pc = "backup" /\ variant = "script"
    /\ sshExecute(
          /\ snapAt' = tdir.files
          /\ IF tdir.exists
             THEN \E c \in Copies(tdir.files) :
                     /\ snaps' = [n \in (DOMAIN snaps) \cup {RunBackup} |->
                                     IF n = RunBackup THEN c ELSE snaps[n]]
                     /\ nonzero' = IF c = tdir.files THEN nonzero
                                   ELSE nonzero \cup {pc}
             ELSE snaps' = snaps /\ nonzero' = nonzero \cup {pc}
          /\ log' = log \o <<"backup", "cp">>
          /\ Proceed
          /\ UNCHANGED <<tdir, pm2, backupDir, dfOut>>)

----------------------------------------------------------------------------
(* Update, build, restart *)

\* ssh.putFile(archive, REMOTE_DIR/<archive>): awaited bare in deploy.js,
\* inside retryOperation in the script
putFile ==
    /\ pc = "putFile"
    /\ puts' = puts + 1
    /\ \/ /\ session = "connected" /\ tdir.exists
          /\ tdir' = Dir(Overlay(tdir.files, [p \in {"update.zip"} |-> "new"]))
          /\ log' = Append(log, "put_file")
          /\ Proceed
          /\ UNCHANGED <<session, retries, faults, reissued>>
       \/ /\ ChannelFails
          /\ IF variant = "deploy"
             THEN Raise /\ retries' = retries /\ reissued' = reissued
             ELSE Rejected
          /\ UNCHANGED <<tdir, log>>
    /\ UNCHANGED <<cfgVars, snaps, pm2, backupDir, zipLocal, exitCode, connects,
                   dfOut, snapAt, nonzero, retryVars>>

\* the entries unzip writes: the archive without the -x patterns
Extracted(v, tree) ==
    LET a == zipSourceFiles(v, tree)
    IN  Restrict(a, (DOMAIN a) \ unzipExclude(v))

\* cd REMOTE_DIR && unzip -o <archive> ... && rm <archive>, in the script
\* followed by && npm ci --only=prod
unzipCommand ==
    /\ pc = "unzip"
    /\ sshExecute(
          /\ IF tdir.exists /\ "update.zip" \in DOMAIN tdir.files
             THEN \E ok \in BOOLEAN :
                     IF ok
                     THEN /\ tdir' = Dir(Restrict(
                                 Overlay(tdir.files, Extracted(variant, localTree)),
                                 Paths \ {"update.zip"}))
                          /\ log' = log \o (IF variant = "deploy"
                                            THEN <<"unzip", "rm_zip">>
                                            ELSE <<"unzip", "rm_zip", "npm_ci">>)
                          /\ nonzero' = nonzero
                     ELSE /\ tdir' = tdir /\ log' = Append(log, "unzip")
                          /\ nonzero' = nonzero \cup {pc}
             ELSE /\ tdir' = tdir
                  /\ log' = IF tdir.exists THEN Append(log, "unzip") ELSE log
                  /\ nonzero' = nonzero \cup {pc}
          /\ Proceed
          /\ UNCHANGED <<snaps, pm2, backupDir, dfOut, snapAt>>)

\* mkdir -p REMOTE_DIR/public/uploads && chmod 755 ...
ensureUploadsDirectory ==
    /\ pc = "uploadsDir"
    /\ sshExecute(
          /\ tdir' = IF "public/uploads" \in DOMAIN tdir.files THEN tdir
                     ELSE Dir(Overlay(tdir.files,
                                      [p \in {"public/uploads"} |-> "empty"]))
          /\ log' = Append(log, "mkdir_uploads")
          /\ Proceed
          /\ UNCHANGED <<snaps, pm2, backupDir, dfOut, snapAt, nonzero>>)

\* nvm use; cd; npm install; npm run build, one per line
buildRemoteProject ==
    /\ pc = "build"
    /\ sshExecute(
          /\ \E ok \in BOOLEAN :
                IF ok /\ tdir.exists /\ "package.json" \in DOMAIN tdir.files
                THEN /\ tdir' = Dir(Overlay(tdir.files, [p \in {"build"} |-> "new"]))
                     /\ nonzero' = nonzero
                ELSE /\ tdir' = tdir
                     /\ nonzero' = nonzero \cup {pc}
          /\ log' = log \o <<"npm_install", "npm_build">>
          /\ Proceed
          /\ UNCHANGED <<snaps, pm2, backupDir, dfOut, snapAt>>)

\* chown -R, then chmod -R
setCorrectPermissions ==
    /\ pc \in {"chown", "chmod"}
    /\ sshExecute(
          /\ log' = Append(log, pc)
          /\ Proceed
          /\ UNCHANGED <<remoteVars, backupDir, dfOut, snapAt, nonzero>>)

\* the pm2 commands of restartStrapi: the probe pm2 describe, reload if it
\* exits 0 and start if not, then pm2 save
pm2Restart(known) ==
    IF known THEN <<"pm2_describe_0", "pm2_reload", "pm2_save">>
    ELSE <<"pm2_describe_1", "pm2_start", "pm2_save">>

\* the check of the version pm2 info prints ended in a throw
versionCheck_Throws(matches) == IF matches THEN "ok" ELSE "throw"

\* if (!stdout.includes(nodeVersion)) console.warn(...)
versionCheck(matches) == IF matches THEN "ok" ELSE "warn"

\* restartStrapi: the pm2 commands, then pm2 info and the check of the
\* version it prints
restartStrapi ==
    \/ /\ pc \in {"restart", "rb_restart"}
       /\ sshExecute(
             /\ log' = log \o pm2Restart(pm2)
             /\ pm2' = TRUE
             /\ Proceed
             /\ UNCHANGED <<tdir, snaps, backupDir, dfOut, snapAt, nonzero>>)
    \/ /\ pc \in {"pm2info", "rb_pm2info"}
       /\ sshExecute(
             /\ log' = Append(log, "pm2_info")
             /\ \E matches \in BOOLEAN :
                   CASE versionCheck(matches) = "ok" -> Proceed
                     [] versionCheck(matches) = "warn" ->
                           ProceedWith({"version_warning"})
                     [] OTHER -> Raise
             /\ UNCHANGED <<remoteVars, backupDir, dfOut, snapAt, nonzero>>)

\* the script: pm2 stop || true && pm2 delete || true && pm2 start
pm2Start ==
    /\ pc = "pm2start"
    /\ sshExecute(
          /\ log' = log \o <<"pm2_stop", "pm2_delete", "pm2_start">>
          /\ pm2' = TRUE
          /\ Proceed
          /\ UNCHANGED <<tdir, snaps, backupDir, dfOut, snapAt, nonzero>>)

updatePM2Startup ==
    /\ pc = "pm2startup"
    /\ sshExecute(
          /\ log' = Append(log, "pm2_startup")
          /\ Proceed
          /\ UNCHANGED <<remoteVars, backupDir, dfOut, snapAt, nonzero>>)

----------------------------------------------------------------------------
(* catch, rollback, finally *)

\* the rollback attempted without ssh.isConnected() being asked
canRollback_Unconnected(v, sess, bdir) ==
    IF v = "deploy" THEN bdir # "" /\ bdir # NoBackupNeeded ELSE TRUE

\* the condition under which the catch block attempts a rollback
canRollback(v, sess, bdir) ==
    IF v = "deploy"
    THEN sess = "connected" /\ bdir # "" /\ bdir # NoBackupNeeded
    ELSE sess = "connected"

catchBlock ==
    /\ pc = "catch"
    /\ IF canRollback(variant, session, backupDir)
       THEN pc' = "rollback" /\ msgs' = msgs \cup {"attempting_rollback"}
       ELSE pc' = "finally" /\ msgs' = msgs \cup {"cannot_rollback"}
    /\ UNCHANGED <<cfgVars, attempt, session, backupDir, remoteVars, zipLocal,
                   exitCode, log, connects, puts, retries, dfOut, snapAt,
                   faults, failedAt, nonzero, reissued, retryVars>>

\* the directories the mv of the rollback names as its sources: backupDir in
\* deploy.js, whatever REMOTE_DIR_backup_* matches in the script
rollbackSources(v, bdir, sn) == IF v = "deploy" THEN {bdir} ELSE DOMAIN sn

\* rm -rf REMOTE_DIR && mv <sources> REMOTE_DIR.  mv renames a single
\* existing source; it fails on a missing source and on several sources,
\* REMOTE_DIR being gone by then
rollbackCommand ==
    /\ pc = "rollback"
    /\ sshExecute(
          /\ \E rmOk \in BOOLEAN :
                LET src == rollbackSources(variant, backupDir, snaps)
                IN  IF ~rmOk
                    THEN /\ UNCHANGED <<tdir, snaps>>
                         /\ log' = Append(log, "rm_rf")
                         /\ nonzero' = nonzero \cup {pc}
                    ELSE /\ log' = log \o <<"rm_rf", "mv">>
                         /\ IF Cardinality(src) = 1 /\ src \subseteq DOMAIN snaps
                            THEN LET b == CHOOSE n \in src : TRUE
                                 IN  /\ tdir' = Dir(snaps[b])
                                     /\ snaps' = [n \in (DOMAIN snaps) \ {b} |-> snaps[n]]
                                     /\ nonzero' = nonzero
                            ELSE /\ tdir' = Absent /\ snaps' = snaps
                                 /\ nonzero' = nonzero \cup {pc}
          /\ ProceedWith({"rollback_completed"})
          /\ UNCHANGED <<pm2, backupDir, dfOut, snapAt>>)

\* the finally block removing the backup directories as well
finallySnaps_Pruned(sn) == NoSnaps

\* the backup directories after the finally block: it disposes the session
\* and unlinks the local archive, and sends no command to the host
finallySnaps(sn) == sn

\* ssh.dispose() if connected; unlink of the archive if it exists, a failure
\* of which is only logged.  deploy() then returns to
\* deploy().catch(console.error): nothing sets an exit code, and the process
\* ends with code 0 once the event loop is empty
finallyBlock ==
    /\ pc = "finally"
    /\ session' = IF session = "connected" THEN "disposed" ELSE session
    /\ IF zipLocal
       THEN \E ok \in BOOLEAN :
               IF ok THEN zipLocal' = FALSE /\ msgs' = msgs
               ELSE zipLocal' = TRUE /\ msgs' = msgs \cup {"cleanup_error"}
       ELSE UNCHANGED <<zipLocal, msgs>>
    /\ snaps' = finallySnaps(snaps)
    /\ pc' = "exited"
    /\ exitCode' = 0
    /\ UNCHANGED <<cfgVars, attempt, backupDir, tdir, pm2, log,
                   connects, puts, retries, dfOut, snapAt, faults, failedAt,
                   nonzero, reissued, retryVars>>

Next ==
    \/ validateEnvironment \/ executeCommand \/ zipStep \/ sshConnect
    \/ checkDiskSpace \/ ensureRemoteDir \/ checkStrapiInstallation
    \/ processExit \/ ensureNodeVersion \/ ensureStrapiInstalled \/ npmLatest
    \/ backupRemoteDir \/ backupCommand \/ putFile \/ unzipCommand
    \/ ensureUploadsDirectory \/ buildRemoteProject \/ setCorrectPermissions
    \/ restartStrapi \/ pm2Start \/ updatePM2Startup
    \/ catchBlock \/ rollbackCommand \/ finallyBlock

Spec == Init /\ [][Next]_vars

----------------------------------------------------------------------------
(* retryOperation run on its own, for any maxRetries: the operation fails   *)
(* until its invocation number rFirstOk (0: it never succeeds)              *)

RunIdle ==
    /\ variant = "deploy" /\ env = requiredEnvVars /\ localPkg = TRUE
    /\ localTree = [p \in {"package.json", "src"} |-> "new"]
    /\ tdir0 = Absent /\ snaps = NoSnaps /\ pm2 = FALSE
    /\ pc = "idle" /\ attempt = 0 /\ session = "none" /\ backupDir = ""
    /\ tdir = tdir0 /\ zipLocal = FALSE /\ exitCode = -1
    /\ log = <<>> /\ msgs = {} /\ connects = 0 /\ puts = 0 /\ retries = 0
    /\ dfOut = NoDf /\ snapAt = NoFiles /\ faults = 0 /\ failedAt = "none"
    /\ nonzero = {} /\ reissued = FALSE

RetryInit ==
    /\ RunIdle
    /\ rMax \in 1..MaxN
    /\ rFirstOk \in 0..(MaxN + 1)
    /\ rI = 0 /\ rCalls = 0 /\ rSleeps = 0 /\ rState = "running" /\ rValue = 0

\* one pass of the loop body: "return await operation()" and the catch
retryInvoke ==
    /\ rState = "running" /\ rI < rMax
    /\ rCalls' = rCalls + 1
    /\ LET rejected == rFirstOk = 0 \/ rCalls + 1 < rFirstOk
           fate == retryOperation(rI, rMax, rejected)
       IN  /\ rState' = CASE fate = "return" -> "returned"
                          [] fate = "throw" -> "threw"
                          [] OTHER -> "sleeping"
           /\ rValue' = IF fate = "retry" THEN rValue ELSE rCalls + 1
    /\ UNCHANGED <<cfgVars, runVars, rMax, rFirstOk, rI, rSleeps>>

\* the delay, then i++ and the loop test; a loop that ends returns undefined
retrySleep ==
    /\ rState = "sleeping"
    /\ rSleeps' = rSleeps + 1
    /\ rI' = rI + 1
    /\ rState' = IF rI + 1 < rMax THEN "running" ELSE "returned"
    /\ rValue' = IF rI + 1 < rMax THEN rValue ELSE 0
    /\ UNCHANGED <<cfgVars, runVars, rMax, rFirstOk, rCalls>>

RetryNext == retryInvoke \/ retrySleep

RetrySpec == RetryInit /\ [][RetryNext]_vars

----------------------------------------------------------------------------
(* checkDiskSpace run on its own, from the state deploy() calls it in, on    *)
(* every reading of DfReadings                                              *)

DiskInit ==
    /\ variant \in {"deploy", "script"}
    /\ env = requiredEnvVars /\ localPkg = TRUE
    /\ localTree \in LocalTrees
    /\ tdir0 \in TargetDirs
    /\ snaps \in SnapSets
    /\ pm2 \in BOOLEAN
    /\ pc = "diskSpace" /\ attempt = 0 /\ session = "connected" /\ backupDir = ""
    /\ tdir = tdir0 /\ zipLocal = TRUE /\ exitCode = -1
    /\ log = <<>> /\ msgs = {} /\ connects = 1 /\ puts = 0 /\ retries = 0
    /\ dfOut = NoDf /\ snapAt = NoFiles /\ faults = 0 /\ failedAt = "none"
    /\ nonzero = {} /\ reissued = FALSE
    /\ RetryIdle

checkDiskSpaceAny == checkDiskSpaceOn(DfReadings)

DiskSpec == DiskInit /\ [][checkDiskSpaceAny]_vars

----------------------------------------------------------------------------
(* Outcomes of a run, read off the console messages *)

Ended == pc = "exited"
Succeeded == "success" \in msgs
RollbackAttempted == "attempting_rollback" \in msgs
RollbackFailed == "rollback_failed" \in msgs
RolledBack == "rollback_completed" \in msgs /\ ~RollbackFailed
FailedPrecheck == Ended /\ ~Succeeded /\ ~RollbackAttempted

\* the remote commands that transfer or extract the archive, install
\* dependencies, build, or restart the service
UpdateCmds ==
    {"put_file", "unzip", "npm_install", "npm_ci", "npm_install_g",
     "npm_build", "pm2_reload", "pm2_start"}

\* the remote commands that change the host
MutationCmds ==
    UpdateCmds \cup {"mkdir", "mkdir_uploads", "cp", "rm_rf", "mv", "rm_zip",
                     "chown", "chmod", "nvm_install", "pm2_save", "pm2_startup",
                     "pm2_stop", "pm2_delete"}

Positions(c) == {k \in 1..Len(log) : log[k] = c}

----------------------------------------------------------------------------
(* Claims *)

\* C1: in the sequence of remote commands of a run, no transfer, extraction,
\* dependency-install, build or restart command comes before the backup
\* command, and in deploy.js backupRemoteDir has by then returned a snapshot
\* identifier, the concrete path or the sentinel.
C1_BackupBeforeMutate ==
    \A k \in 1..Len(log) :
       log[k] \in UpdateCmds =>
          /\ \E j \in 1..(k - 1) : log[j] = "backup"
          /\ variant = "deploy" => backupDir \in {RunBackup, NoBackupNeeded}

\* a run of deploy.js that took a backup, updated, restarted and succeeded
C1_Witness ==
    /\ Ended /\ Succeeded
    /\ Positions("unzip") # {} /\ Positions("pm2_save") # {}
    /\ variant = "deploy" /\ backupDir = RunBackup


\* the steps of the try block from the backup step on, and those before it
FromBackupOn(v) ==
    {Steps(v)[k] : k \in IndexOf(Steps(v), "backup")..Len(Steps(v))}
BeforeBackup(v) ==
    {Steps(v)[k] : k \in 1..(IndexOf(Steps(v), "backup") - 1)}

RestartCmds == {"pm2_reload", "pm2_start"}

\* C2: in deploy.js, when the target directory held content A at the time of
\* the backup and a later step failed, then once the rollback has completed
\* the target directory holds exactly A and restartStrapi was issued after
\* the restore, in the order remove, rename, restart.
C2_RollbackRestores ==
    (/\ variant = "deploy" /\ Ended /\ RolledBack
     /\ snapAt # NoFiles /\ failedAt \in FromBackupOn(variant))
       => /\ tdir = Dir(snapAt)
          /\ \E r \in Positions("rm_rf"), m \in Positions("mv") :
                /\ r < m
                /\ \E k \in (m + 1)..Len(log) : log[k] \in RestartCmds

\* C3: when the backup step returned the sentinel and a later step failed,
\* the rollback removes the target directory and restores nothing from a copy.
C3_SentinelRollback ==
    (Ended /\ backupDir = NoBackupNeeded /\ failedAt # "none")
       => ~tdir.exists /\ Positions("mv") = {}

\* C4: however a run ends, a session that was connected has been disposed
\* and the local archive is deleted, unless the deletion itself failed and
\* was logged.
C4_ScopedRelease ==
    Ended => /\ session # "connected"
             /\ zipLocal => "cleanup_error" \in msgs

\* C5: a failure of the backup step or of any step after it takes the run
\* into a rollback attempt, and the run ends RolledBack or RollbackFailed.
C5_FailureRouting ==
    (Ended /\ failedAt \in FromBackupOn(variant))
       => RollbackAttempted /\ (RolledBack \/ RollbackFailed)

\* C6: when a step before the backup step fails, in either script, no
\* rollback command is issued and the target directory is as it was before
\* the run, in existence and in content.
C6_PrecheckMutatesNothing ==
    (Ended /\ (failedAt \in BeforeBackup(variant) \/ "not_installed" \in msgs))
       => /\ ~RollbackAttempted
          /\ Positions("rm_rf") = {}
          /\ tdir = tdir0

\* the free space df -h printed is less than 1 GB
BelowOneGB(out) ==
    \/ out.unit \in {"K", "M"}
    \/ out.unit = "G" /\ out.n10 < MinFreeTenths

\* C7: when the disk-space query reports less free space than the threshold,
\* the run ends as FailedPrecheck, no command that changes the host was
\* issued, and the session is disposed.
C7_DiskSpaceScenario ==
    (Ended /\ BelowOneGB(dfOut))
       => /\ FailedPrecheck
          /\ \A k \in 1..Len(log) : log[k] \notin MutationCmds
          /\ session = "disposed"

\* C8: for every maxRetries N >= 1 an operation that fails on every
\* invocation is invoked exactly N times, never more, and the error
\* retryOperation throws is the one of the N-th invocation.
C8_ExhaustedRetries ==
    (rState # "init" /\ rFirstOk = 0)
       => /\ rCalls <= rMax
          /\ rState = "running" => rI < rMax
          /\ rState \in {"returned", "threw"}
                => rState = "threw" /\ rCalls = rMax /\ rValue = rMax

C8_Witness ==
    rState = "threw" /\ rFirstOk = 0 /\ rMax = DefaultMaxRetries /\ rCalls = rMax

\* C9: when a required variable is missing or there is no local
\* package.json, the run makes no connect invocation, issues no remote
\* command or transfer, retries nothing and attempts no rollback: it fails in
\* validateEnvironment.
C9_ValidationBeforeNetwork ==
    (env # requiredEnvVars \/ ~localPkg)
       => /\ connects = 0 /\ puts = 0 /\ log = <<>> /\ retries = 0
          /\ session = "none" /\ ~RollbackAttempted
          /\ pc \in {"validate", "catch", "finally", "exited"}
          /\ Ended => failedAt = "validate" /\ ~Succeeded

C9_Witness ==
    /\ Ended /\ failedAt = "validate" /\ "cannot_rollback" \in msgs
    /\ localPkg /\ "DEPLOY_HOST" \notin env /\ "REMOTE_DIR" \in env

\* C10: the exit code of a run is 0 exactly when the run ended in Succeeded.
C10_ExitCode == Ended => (exitCode = 0 <=> Succeeded)

\* C11: whenever a remote command exits with non-zero status, sshExecute
\* reports a failure to its caller: the step that issued the command ends in
\* an error, which reaches the catch block of deploy() or, inside the
\* rollback, the catch of the rollback.
C11_ExitStatusDecides ==
    \A s \in nonzero :
       IF s \in RollbackPcs THEN RollbackFailed ELSE failedAt = s

\* the sub-steps of the update: transfer, extraction, and dependency
\* installation with the build
UpdateSteps == {"putFile", "unzip", "build"}

\* a restart command ran before any command of a rollback
ForwardRestart ==
    \E k \in 1..Len(log) :
       log[k] \in RestartCmds /\ \A j \in 1..(k - 1) : log[j] # "rm_rf"

\* C12: in a run of deploy.js in which the transfer, the extraction or the
\* installation and build failed, by a rejection or by a non-zero exit
\* status, the error of that step reached the catch block of deploy(), no
\* later step was begun and no restart was issued on the forward path.
C12_UpdateAborts ==
    \A s \in UpdateSteps :
       (variant = "deploy" /\ (s \in nonzero \/ failedAt = s))
          => /\ failedAt = s
             /\ pc \in {"catch", "finally", "exited"} \cup RollbackPcs
             /\ ~ForwardRestart

\* C13: the restore command of the rollback (rm -rf, mv) is invoked at most
\* once in a run, and when it fails the run is reported as RollbackFailed.
C13_RollbackNotRetried ==
    /\ pc = "rollback" => attempt = 0
    /\ "rollback" \in nonzero => RollbackFailed

\* C14: the transfer is retried as the remote commands are: when the run
\* gives up on the transfer, ssh.putFile has been invoked maxRetries times,
\* and while the transfer is being attempted no rollback has begun.
C14_TransferRetried ==
    /\ failedAt = "putFile" => puts = DefaultMaxRetries
    /\ pc = "putFile" => puts = attempt /\ ~RollbackAttempted

\* C15: a restart issues pm2 start only after a probe that reported the
\* service absent and pm2 reload only after a probe that reported it present,
\* each followed by pm2 save; a restart that follows another in the same run
\* reloads and does not start the service again.
C15_IdempotentRestart ==
    \A k \in 1..Len(log) :
       /\ log[k] = "pm2_start" =>
             /\ k > 1 /\ log[k - 1] = "pm2_describe_1"
             /\ k < Len(log) /\ log[k + 1] = "pm2_save"
             /\ \A j \in 1..(k - 1) : log[j] \notin RestartCmds
       /\ log[k] = "pm2_reload" =>
             /\ k > 1 /\ log[k - 1] = "pm2_describe_0"
             /\ k < Len(log) /\ log[k + 1] = "pm2_save"

\* C16: with maxRetries = 3, a connect that fails twice and then succeeds is
\* invoked exactly three times, two retries are logged, and the run is at the
\* disk-space check with an open session and no failure; every failed
\* connect before the third logs one retry and leaves the run connecting.
C16_ConnectRetryScenario ==
    /\ pc = "connect" =>
          connects = attempt /\ retries = attempt /\ attempt < DefaultMaxRetries
    /\ connects < DefaultMaxRetries => failedAt # "connect"
    /\ (pc = "diskSpace" /\ attempt = 0 /\ connects = DefaultMaxRetries)
          => /\ retries = DefaultMaxRetries - 1
             /\ session = "connected"
             /\ failedAt = "none" /\ "deployment_failed" \notin msgs

C16_Witness ==
    /\ pc = "diskSpace" /\ attempt = 0 /\ session = "connected"
    /\ connects = 3 /\ retries = 2

\* C17: an operation that first succeeds on its k-th invocation, k <=
\* maxRetries, is invoked exactly k times, retryOperation returns the result
\* of the k-th invocation, and the delay is slept exactly k - 1 times: once
\* after each failed invocation, not after the success; and when every one of
\* the maxRetries invocations fails, not after the last of them.
C17_StopsAtFirstSuccess ==
    /\ (rState # "init" /\ rFirstOk \in 1..rMax)
          => /\ rCalls <= rFirstOk
             /\ rSleeps = IF rState = "running" THEN rCalls ELSE rCalls - 1
             /\ rState \in {"returned", "threw"}
                   => /\ rState = "returned"
                      /\ rCalls = rFirstOk /\ rValue = rFirstOk
                      /\ rSleeps = rFirstOk - 1
    /\ (rState \in {"returned", "threw"} /\ rFirstOk \notin 1..rMax)
          => rSleeps = rMax - 1

C17_Witness ==
    /\ rState = "returned" /\ rMax = 4 /\ rFirstOk = 3
    /\ rCalls = 3 /\ rValue = 3 /\ rSleeps = 2

\* pm2 info ran before any command of a rollback
ForwardVersionCheck ==
    \E k \in 1..Len(log) :
       log[k] = "pm2_info" /\ \A j \in 1..(k - 1) : log[j] # "rm_rf"

\* C18: a version mismatch reported by pm2 info after the restart does not
\* fail the run: the check itself never ends in an error once pm2 info has
\* run, after the warning deploy() goes on to updatePM2Startup, the only step
\* left that can still fail, and a run that got the warning and had no step
\* fail ends Succeeded with no rollback attempted.
C18_VersionMismatchNonFatal ==
    /\ failedAt = "pm2info" => ~ForwardVersionCheck
    /\ ("version_warning" \in msgs /\ ~RollbackAttempted)
          => /\ pc \in {"pm2startup", "catch", "finally", "exited"}
             /\ failedAt \in {"none", "pm2startup"}
    /\ (Ended /\ "version_warning" \in msgs /\ failedAt = "none")
          => Succeeded /\ ~RollbackAttempted /\ ~RollbackFailed

C18_Witness ==
    /\ Ended /\ Succeeded /\ "version_warning" \in msgs
    /\ ~RollbackAttempted /\ Positions("pm2_info") # {}

\* a step other than the rollback command leaves the backup directory of
\* this run, once it exists, in place and with the same content
SnapshotKept ==
    (RunBackup \in DOMAIN snaps /\ pc # "rollback")
       => RunBackup \in DOMAIN snaps' /\ snaps'[RunBackup] = snaps[RunBackup]

\* C19: the backup directory the backup step created is removed or renamed
\* by no step but the rollback command, and in a run of deploy.js that ends
\* Succeeded with a backup path returned it is still on the host at the end.
C19_SnapshotLifecycle ==
    /\ [][SnapshotKept]_vars
    /\ []((Succeeded /\ backupDir = RunBackup) => RunBackup \in DOMAIN snaps)

C19_Witness ==
    /\ Ended /\ Succeeded /\ backupDir = RunBackup
    /\ RunBackup \in DOMAIN snaps /\ snaps[RunBackup] = snapAt
    /\ tdir.files # snapAt

\* the remote paths a deployment is to leave alone
PreservedPaths == {"public/uploads", "config/env"}

\* C20: in a run that ends Succeeded, every preserved path that was in the
\* target directory before the run is still there with the content it had,
\* whatever the local tree holds.
C20_PreservedPaths ==
    (Ended /\ Succeeded)
       => \A p \in PreservedPaths \cap DOMAIN tdir0.files :
             p \in DOMAIN tdir.files /\ tdir.files[p] = tdir0.files[p]

\* C21: no run reports both that the rollback completed and that it
\* failed; a run that has ended is in exactly one of Succeeded, RolledBack,
\* RollbackFailed and FailedPrecheck; and a failed rollback is reported next
\* to the deployment error, not in its place.
C21_TerminalOutcomes ==
    /\ ~("rollback_completed" \in msgs /\ "rollback_failed" \in msgs)
    /\ Ended =>
          Cardinality({o \in {"Succeeded", "RolledBack", "RollbackFailed",
                              "FailedPrecheck"} :
                         \/ o = "Succeeded" /\ Succeeded
                         \/ o = "RolledBack" /\ "rollback_completed" \in msgs
                         \/ o = "RollbackFailed" /\ RollbackFailed
                         \/ o = "FailedPrecheck" /\ FailedPrecheck}) = 1
    /\ RollbackFailed => "deployment_failed" \in msgs

\* C22: in deploy.js, whenever backupRemoteDir has returned a path and no
\* rollback has renamed the directory since, the directory at that path
\* exists and holds a complete copy of the target directory as it was when
\* the backup command ran.
C22_SnapshotMaterialized ==
    (variant = "deploy" /\ backupDir = RunBackup /\ Positions("mv") = {})
       => RunBackup \in DOMAIN snaps /\ snaps[RunBackup] = snapAt

\* C23: once df has printed the free space, checkDiskSpace throws exactly
\* when that space is less than 1 GB, whatever the unit it is printed in.
C23_DiskSpaceThreshold ==
    dfOut # NoDf => (failedAt = "diskSpace" <=> BelowOneGB(dfOut))

RemotePcs(v) ==
    {Steps(v)[k] : k \in (IndexOf(Steps(v), "connect") + 1)..Len(Steps(v))}
       \cup RollbackPcs

\* one step of a run, as far as the session is concerned: a command or a
\* transfer takes effect only on the connected session, the session is
\* opened only once, by sshConnect, and nothing is sent, transferred or
\* connected once it is disposed
SessionStep ==
    /\ (log' # log \/ tdir' # tdir \/ snaps' # snaps)
          => session = "connected" /\ session' = "connected"
    /\ (session' = "connected" /\ session # "connected")
          => session = "none" /\ pc = "connect"
    /\ session = "disposed"
          => /\ session' = "disposed"
             /\ log' = log /\ puts' = puts /\ connects' = connects

\* C25: a remote command or a transfer is sent only between the successful
\* connect and the dispose, and takes effect only while the session is
\* connected; connect succeeds at most once in a run; the rollback begins,
\* and each of its steps begins, only with the session connected.
C25_SessionBound ==
    /\ [][SessionStep]_vars
    /\ [](/\ session = "none" => log = <<>> /\ puts = 0
          /\ pc \in RemotePcs(variant) => session \in {"connected", "lost"}
          /\ session = "disposed" => pc = "exited"
          /\ (pc \in RollbackPcs /\ attempt = 0) => session = "connected")

C25_Witness ==
    /\ Ended /\ session = "disposed" /\ connects = 2
    /\ Positions("put_file") # {} /\ Positions("mv") # {}
    /\ Positions("pm2_info") # {}

\* C26: a run of deploy.js that is at the backup step or beyond has passed
\* checkStrapiInstallation on a target directory that holds package.json;
\* backupRemoteDir then returns a path and never the sentinel; and when a
\* step after the backup fails with the session still connected, the
\* rollback is attempted.
C26_SentinelUnreachable ==
    (variant = "deploy" /\ backupDir # "")
       => /\ Positions("check_installed") # {}
          /\ "package.json" \in DOMAIN snapAt
          /\ backupDir # NoBackupNeeded
          /\ (Ended /\ failedAt \in FromBackupOn(variant) /\ session = "disposed")
                => RollbackAttempted

====
